---- MODULE Spec2Model ----
(***************************************************************************)
(* Control-flow-graph construction of move2miden (src/src/cfg.rs) and the *)
(* part of the emitter that consumes its blocks (src/src/compiler.rs).    *)
(*                                                                         *)
(* Cfg::new is modelled as a state machine: the first loop (validation    *)
(* and collection of branch origins/destinations) runs one instruction    *)
(* per step, the block map is collected in one step, the second loop      *)
(* (edge classification) runs one instruction per step, and a last step   *)
(* closes the still-open block and returns.                               *)
(***************************************************************************)
EXTENDS Integers, Sequences, FiniteSets, TLC

VARIABLES bytecode, pc, i, branch_dests, branch_origins, blocks, edges,
          current_label, result, stack, emit_status, body,
          function_defs, next_function, main_proc, local_procs, compiled

\* The locals of Cfg::new and its return value.
cfg_vars == <<bytecode, pc, i, branch_dests, branch_origins, blocks, edges,
              current_label, result>>

\* The call stack of compile_with_cfg and the outcome of compile_function.
emit_vars == <<stack, emit_status, body>>

\* The module being compiled, the locals of compile and its return value.
driver_vars == <<function_defs, next_function, main_proc, local_procs,
                 compiled>>

vars == <<bytecode, pc, i, branch_dests, branch_origins, blocks, edges,
          current_label, result, stack, emit_status, body,
          function_defs, next_function, main_proc, local_procs, compiled>>

(***************************************************************************)
(* Bounds                                                                  *)
(***************************************************************************)
\* Every bytecode sequence of at most MaxLen instructions is an input.
MaxLen == 3

(***************************************************************************)
(* Bytecode.  Only five shapes matter to cfg.rs; every other instruction  *)
(* is opaque ("N").  Indices are 0-based as in the source.                *)
(***************************************************************************)
Instr(o, x) == [op |-> o, d |-> x]

N == Instr("N", 0)

Ret == Instr("Ret", 0)

Abort == Instr("Abort", 0)

BrTrue(x) == Instr("BrTrue", x)

BrFalse(x) == Instr("BrFalse", x)

Branch(x) == Instr("Branch", x)

ConditionalOps == {"BrTrue", "BrFalse"}

BranchingOps == {"BrTrue", "BrFalse", "Branch"}

\* bytecode.get(k): defined for 0 <= k < len
InBounds(bc, k) == k >= 0 /\ k < Len(bc)

At(bc, k) == bc[k + 1]

\* Bytecode::is_conditional_branch
is_conditional_branch(b) == b.op \in ConditionalOps

\* &bytecode[start..end]
Slice(bc, start, end) == SubSeq(bc, start + 1, end)

(***************************************************************************)
(* Labels                                                                  *)
(***************************************************************************)
Entry == [tag |-> "Entry", idx |-> 0]

Exit == [tag |-> "Exit", idx |-> 0]

Point(k) == [tag |-> "Point", idx |-> k]

\* Option<Label>::None
None == [tag |-> "None", idx |-> 0]

\* Label::new
Label_new(index) == IF index = 0 THEN Entry ELSE Point(index)

\* Label::cmp_inner, as "self < other"
LabelLess(a, b) ==
    IF a = b THEN FALSE
    ELSE IF a.tag = "Entry" THEN TRUE
    ELSE IF a.tag = "Exit" THEN FALSE
    ELSE IF b.tag = "Entry" THEN FALSE
    ELSE IF b.tag = "Exit" THEN TRUE
    ELSE a.idx < b.idx

(***************************************************************************)
(* Outgoing edges                                                          *)
(***************************************************************************)
If(t, f) == [kind |-> "If", true_case |-> t, false_case |-> f]

Pass(n) == [kind |-> "Pass", next |-> n]

LoopBack(h) == [kind |-> "LoopBack", header |-> h]

WhileTrue(b, a) == [kind |-> "WhileTrue", body_start |-> b, after |-> a]

WhileFalse(b, a) == [kind |-> "WhileFalse", body_start |-> b, after |-> a]

WhileKinds == {"WhileTrue", "WhileFalse"}

\* The labels in successor position of an edge, in the order has_path
\* pushes them.
Successors(e) ==
    IF e.kind = "If" THEN <<e.true_case, e.false_case>>
    ELSE IF e.kind = "LoopBack" THEN <<e.header>>
    ELSE IF e.kind = "Pass" THEN <<e.next>>
    ELSE <<e.body_start, e.after>>

SuccessorSet(e) == {Successors(e)[k] : k \in 1..Len(Successors(e))}

(***************************************************************************)
(* BTreeMap operations                                                     *)
(***************************************************************************)
EmptyMap == [x \in {} |-> None]

MapInsert(m, k, v) == [x \in (DOMAIN m) \cup {k} |-> IF x = k THEN v ELSE m[x]]

MapRemove(m, k) == [x \in (DOMAIN m) \ {k} |-> m[x]]

(***************************************************************************)
(* Validation (first loop)                                                 *)
(***************************************************************************)
\* validate_unconditional_jump whose destination match forgets the
\* conditional branches.
validate_unconditional_jump_branch_only(dest, index, bc) ==
    IF dest = index THEN "SelfBranch"
    ELSE IF ~InBounds(bc, dest) THEN "BranchOutOfBounds"
    ELSE IF At(bc, dest).op = "Branch" THEN "BranchToBranch"
    ELSE "Ok"

validate_unconditional_jump(dest, index, bc) ==
    IF dest = index THEN "SelfBranch"
    ELSE IF ~InBounds(bc, dest) THEN "BranchOutOfBounds"
    ELSE IF At(bc, dest).op \in BranchingOps THEN "BranchToBranch"
    ELSE "Ok"

\* validate_conditional_jump without the repeated-conditional check.
validate_conditional_jump_no_repeat(dest, index, bc) ==
    IF dest < index THEN "ConditionalJumpBack"
    ELSE validate_unconditional_jump(dest, index, bc)

\* validate_conditional_jump with its first two checks in the other order.
validate_conditional_jump_reordered(dest, index, bc) ==
    IF InBounds(bc, index + 1) /\ is_conditional_branch(At(bc, index + 1))
    THEN "RepeatConditionalBranch"
    ELSE IF dest < index THEN "ConditionalJumpBack"
    ELSE validate_unconditional_jump(dest, index, bc)

validate_conditional_jump(dest, index, bc) ==
    IF dest < index THEN "ConditionalJumpBack"
    ELSE IF InBounds(bc, index + 1) /\ is_conditional_branch(At(bc, index + 1))
         THEN "RepeatConditionalBranch"
    ELSE validate_unconditional_jump(dest, index, bc)

(***************************************************************************)
(* Block splitter (lines 130-144)                                          *)
(***************************************************************************)
\* branch_points that leaves the branch origins out.
branch_points_dests_only(dests, origins) == dests

\* branch_dests.union(&branch_origins), an ordered list in the source
branch_points(dests, origins) == dests \cup origins

\* The element zipped with `start`: the next larger branch point.
NextPoint(points, start) ==
    CHOOSE e \in points : e > start /\ \A p \in points : p > start => e <= p

\* The closure of filter_map: the starts that yield a block.
block_starts(dests, origins) ==
    LET points == branch_points(dests, origins)
    IN {s \in points : (\E p \in points : p > s) /\ s \notin origins}

collect_blocks(bc, dests, origins) ==
    LET points == branch_points(dests, origins)
        starts == block_starts(dests, origins)
    IN [l \in {Label_new(s) : s \in starts} \cup {Exit} |->
           IF l = Exit THEN <<>>
           ELSE Slice(bc, l.idx, NextPoint(points, l.idx))]

(***************************************************************************)
(* Reachability oracle: has_path, a BFS with a visited set and a queue.    *)
(***************************************************************************)
RECURSIVE has_path_loop(_, _, _, _)
has_path_loop(es, visited, queue, target) ==
    IF queue = <<>> THEN FALSE
    ELSE LET label == Head(queue)
             visited1 == visited \cup {label}
         IN IF label = target THEN TRUE
            ELSE LET succs == IF label \in DOMAIN es
                              THEN Successors(es[label]) ELSE <<>>
                     pushed == SelectSeq(succs, LAMBDA s : s \notin visited1)
                 IN has_path_loop(es, visited1, Tail(queue) \o pushed, target)

has_path(es, start, target) == has_path_loop(es, {}, <<start>>, target)

(***************************************************************************)
(* Edge classifier helpers (second loop, lines 146-252)                    *)
(***************************************************************************)
\* Lines 149-158: entering a new block closes the open one with a Pass.
edges_at_head(bs, es, cur, index) ==
    IF Label_new(index) \in DOMAIN bs /\ cur # None
    THEN MapInsert(es, cur, Pass(Label_new(index)))
    ELSE es

label_at_head(bs, cur, index) ==
    IF Label_new(index) \in DOMAIN bs THEN Label_new(index) ELSE cur

\* fallthrough_case without the look-ahead at a following Branch.
fallthrough_case_no_lookahead(bc, index) == Label_new(index + 1)

\* Lines 167-170 and 183-186: the successor on the fall-through side of a
\* conditional at `index`.
fallthrough_case(bc, index) ==
    IF InBounds(bc, index + 1) /\ At(bc, index + 1).op = "Branch"
    THEN Label_new(At(bc, index + 1).d)
    ELSE Label_new(index + 1)

\* Lines 211-233: the orientation match on the two has_path results.
\* InvalidLoopHeader stands for the early return of the error.
InvalidLoopHeader == [kind |-> "InvalidLoopHeader"]

\* orient_loop whose WhileFalse keeps the fields in the order of the If.
orient_loop_unswapped_fields(es, true_case, false_case, l) ==
    LET t == has_path(es, true_case, l)
        f == has_path(es, false_case, l)
    IN IF t = f THEN InvalidLoopHeader
       ELSE IF t THEN WhileTrue(true_case, false_case)
       ELSE WhileFalse(true_case, false_case)

\* orient_loop with the two loop kinds exchanged.
orient_loop_swapped(es, true_case, false_case, l) ==
    LET t == has_path(es, true_case, l)
        f == has_path(es, false_case, l)
    IN IF t = f THEN InvalidLoopHeader
       ELSE IF t THEN WhileFalse(false_case, true_case)
       ELSE WhileTrue(true_case, false_case)

orient_loop(es, true_case, false_case, l) ==
    LET t == has_path(es, true_case, l)
        f == has_path(es, false_case, l)
    IN IF t = f THEN InvalidLoopHeader
       ELSE IF t THEN WhileTrue(true_case, false_case)
       ELSE WhileFalse(false_case, true_case)

\* promote_header that asks has_path with the header's edge still in the
\* map.
promote_header_keeps_edge(es, dest_label, l) ==
    IF ~(dest_label \in DOMAIN es /\ es[dest_label].kind = "If")
    THEN [ok |-> FALSE, edges |-> es]
    ELSE LET w == orient_loop(es, es[dest_label].true_case,
                              es[dest_label].false_case, l)
         IN IF w.kind = "InvalidLoopHeader"
            THEN [ok |-> FALSE, edges |-> es]
            ELSE [ok |-> TRUE, edges |-> MapInsert(es, dest_label, w)]

\* promote_header that goes on when the header's edge is not an If.
promote_header_no_if_check(es, dest_label, l) ==
    IF ~(dest_label \in DOMAIN es /\ es[dest_label].kind = "If")
    THEN [ok |-> TRUE, edges |-> es]
    ELSE LET removed == MapRemove(es, dest_label)
             w == orient_loop(removed, es[dest_label].true_case,
                              es[dest_label].false_case, l)
         IN IF w.kind = "InvalidLoopHeader"
            THEN [ok |-> FALSE, edges |-> es]
            ELSE [ok |-> TRUE, edges |-> MapInsert(removed, dest_label, w)]

\* Lines 199-234: the back-jump case.  Yields the error (ok = FALSE), or
\* the edge map with the header promoted.
promote_header(es, dest_label, l) ==
    IF ~(dest_label \in DOMAIN es /\ es[dest_label].kind = "If")
    THEN [ok |-> FALSE, edges |-> es]
    ELSE LET removed == MapRemove(es, dest_label)
             w == orient_loop(removed, es[dest_label].true_case,
                              es[dest_label].false_case, l)
         IN IF w.kind = "InvalidLoopHeader"
            THEN [ok |-> FALSE, edges |-> es]
            ELSE [ok |-> TRUE, edges |-> MapInsert(removed, dest_label, w)]

\* close_last_block that forgets the exit edge of the last block.
close_last_block_dropped(es, cur) == es

\* Lines 249-252: the last block exits the function.
close_last_block(es, cur) ==
    IF cur # None THEN MapInsert(es, cur, Pass(Exit)) ELSE es

(***************************************************************************)
(* Emitter: compile_body (compiler.rs)                                     *)
(***************************************************************************)
\* Lines 193-195: the unreachable! arm is hit when a block holds a
\* branching bytecode.
compile_body_unreachable(code) ==
    \E k \in 1..Len(code) : code[k].op \in BranchingOps

(***************************************************************************)
(* Inputs                                                                  *)
(***************************************************************************)
\* The instructions with destinations in 0..n
Alphabet(n) ==
    {N, Ret, Abort} \cup {Instr(o, x) : o \in BranchingOps, x \in 0..n}

\* k opaque instructions
Ns(k) == [x \in 1..k |-> N]

\* Every sequence of at most MaxLen instructions.
ShortPrograms == UNION {[1..k -> Alphabet(MaxLen)] : k \in 0..MaxLen}

\* The bytecode of the unit tests of cfg.rs.
test_simple_cfg == Ns(5) \o <<BrFalse(7), Branch(9), N, Abort, Ret>>

test_while_loop_cfg ==
    Ns(7) \o <<BrFalse(18), Branch(9)>> \o Ns(8) \o <<Branch(4), N, Ret>>

test_break_loop ==
    Ns(7) \o <<BrFalse(10), N, Ret>> \o Ns(3) \o <<BrFalse(16), N, Ret>>
    \o Ns(11) \o <<BrFalse(29), Branch(34)>> \o Ns(4)
    \o <<Branch(16), N, Ret>>

test_while_loop_with_if_in_body ==
    Ns(5) \o <<BrFalse(29), Branch(7)>> \o Ns(5) \o <<BrFalse(18)>>
    \o Ns(4) \o <<Branch(24)>> \o Ns(6) \o Ns(4) \o <<Branch(2), N, Ret>>

\* A loop nested in the body of another loop.
nested_loop ==
    <<N, BrFalse(8), N, BrFalse(6), N, Branch(2), N, Branch(0), Ret>>

\* A loop whose exit path later branches back to the header conditionally.
loop_then_retry ==
    <<N, BrTrue(4), N, Branch(0), N, BrTrue(7), Branch(0), Ret>>

\* An if/else whose arms join at code that runs after them.
if_else_then_code ==
    <<N, BrFalse(4), N, Branch(5), N, N, Ret>>

\* A loop whose exit side reaches the header again before the back-jump is
\* scanned.
exit_side_rejoins ==
    <<N, BrTrue(4), N, Branch(7), N, BrTrue(9), Branch(0), N, Branch(0), Ret>>

Seeds ==
    {test_simple_cfg, test_while_loop_cfg, test_break_loop,
     test_while_loop_with_if_in_body, nested_loop, loop_then_retry,
     if_else_then_code, exit_side_rejoins}

\* A seed with one instruction replaced by any instruction.
Variants(seed) ==
    {[seed EXCEPT ![k] = x] : k \in 1..Len(seed), x \in Alphabet(Len(seed))}

Programs == ShortPrograms \cup Seeds \cup UNION {Variants(s) : s \in Seeds}

(***************************************************************************)
(* Module driver: procedures and function definitions (compiler.rs)        *)
(***************************************************************************)
\* The most function definitions of a module.
MaxFunctions == 3

\* Procedure names: the name of the function at a position, the name
\* ProcedureName::main(), and the name of the placeholder.
FunctionName(k) == [tag |-> "function", idx |-> k]

MainName == [tag |-> "main", idx |-> 0]

MAIN_NAME_REPLACEMENT == [tag |-> "dummy_name_in_place_of_main", idx |-> 0]

\* Lines 204-217: a procedure with no nodes.
empty_proc(name) == [name |-> name, body |-> <<>>]

\* A function definition: is_entry, and what compile_function makes of its
\* code: "none" for a definition without code, "ok" for code that compiles,
\* "err" for code on which Cfg::new or compile_with_cfg fails.
FunctionDefs == [is_entry : BOOLEAN, code : {"none", "ok", "err"}]

Modules == UNION {[1..n -> FunctionDefs] : n \in 0..MaxFunctions}

\* Lines 71-95: the procedure compile_function returns for the definition
\* at position k when it does not fail; the body of compiled code is told
\* apart by its length.
compile_function(func_def, k) ==
    IF func_def.code = "none" THEN empty_proc(FunctionName(k))
    ELSE [name |-> FunctionName(k),
          body |-> [n \in 1..k |-> [node |-> "Instruction", ins |-> "Op"]]]

\* Option<ProcedureAst>
NoProc == [some |-> FALSE, proc |-> empty_proc(MainName)]

Some(proc) == [some |-> TRUE, proc |-> proc]

(***************************************************************************)
(* Cfg::new                                                                *)
(***************************************************************************)
Init ==
    /\ bytecode \in Programs
    /\ pc = "validate"
    /\ i = 0
    /\ branch_dests = {0, Len(bytecode)}
    /\ branch_origins = {}
    /\ blocks = EmptyMap
    /\ edges = EmptyMap
    /\ current_label = None
    /\ result = "Pending"
    /\ stack = <<>>
    /\ emit_status = "idle"
    /\ body = <<>>
    /\ function_defs = <<>>
    /\ next_function = 1
    /\ main_proc = NoProc
    /\ local_procs = <<>>
    /\ compiled = "Idle"

\* Lines 111-119
ValidateConditional ==
    /\ pc = "validate" /\ i < Len(bytecode)
    /\ At(bytecode, i).op \in ConditionalOps
    /\ LET x == At(bytecode, i).d
           r == validate_conditional_jump(x, i, bytecode)
       IN IF r # "Ok"
          THEN /\ result' = r
               /\ pc' = "done"
               /\ UNCHANGED <<i, branch_dests, branch_origins>>
          ELSE /\ branch_origins' = branch_origins \cup {i}
               /\ branch_dests' = branch_dests \cup {x, i + 1}
               /\ i' = i + 1
               /\ UNCHANGED <<pc, result>>
    /\ UNCHANGED <<bytecode, blocks, edges, current_label>>
    /\ UNCHANGED emit_vars
    /\ UNCHANGED driver_vars

\* Lines 120-125
ValidateBranch ==
    /\ pc = "validate" /\ i < Len(bytecode)
    /\ At(bytecode, i).op = "Branch"
    /\ LET x == At(bytecode, i).d
           r == validate_unconditional_jump(x, i, bytecode)
       IN IF r # "Ok"
          THEN /\ result' = r
               /\ pc' = "done"
               /\ UNCHANGED <<i, branch_dests, branch_origins>>
          ELSE /\ branch_origins' = branch_origins \cup {i}
               /\ branch_dests' = branch_dests \cup {x}
               /\ i' = i + 1
               /\ UNCHANGED <<pc, result>>
    /\ UNCHANGED <<bytecode, blocks, edges, current_label>>
    /\ UNCHANGED emit_vars
    /\ UNCHANGED driver_vars

\* Line 126
ValidateOther ==
    /\ pc = "validate" /\ i < Len(bytecode)
    /\ At(bytecode, i).op \notin BranchingOps
    /\ i' = i + 1
    /\ UNCHANGED <<bytecode, pc, branch_dests, branch_origins, blocks, edges,
                   current_label, result>>
    /\ UNCHANGED emit_vars
    /\ UNCHANGED driver_vars

\* Lines 130-147
CollectBlocks ==
    /\ pc = "validate" /\ i = Len(bytecode)
    /\ blocks' = collect_blocks(bytecode, branch_dests, branch_origins)
    /\ edges' = EmptyMap
    /\ current_label' = None
    /\ i' = 0
    /\ pc' = "classify"
    /\ UNCHANGED <<bytecode, branch_dests, branch_origins, result>>
    /\ UNCHANGED emit_vars
    /\ UNCHANGED driver_vars

\* The state of the second loop at index i after lines 149-158.
HeadEdges == edges_at_head(blocks, edges, current_label, i)

HeadLabel == label_at_head(blocks, current_label, i)

Classifying == pc = "classify" /\ i < Len(bytecode)

\* Lines 159-162: no open block, the instruction is skipped.
ClassifySkip ==
    /\ Classifying
    /\ HeadLabel = None
    /\ edges' = HeadEdges
    /\ current_label' = HeadLabel
    /\ i' = i + 1
    /\ UNCHANGED <<bytecode, pc, branch_dests, branch_origins, blocks, result>>
    /\ UNCHANGED emit_vars
    /\ UNCHANGED driver_vars

\* Lines 164-179
ClassifyBrTrue ==
    /\ Classifying
    /\ HeadLabel # None
    /\ At(bytecode, i).op = "BrTrue"
    /\ edges' = MapInsert(HeadEdges, HeadLabel,
                          If(Label_new(At(bytecode, i).d),
                             fallthrough_case(bytecode, i)))
    /\ current_label' = None
    /\ i' = i + 1
    /\ UNCHANGED <<bytecode, pc, branch_dests, branch_origins, blocks, result>>
    /\ UNCHANGED emit_vars
    /\ UNCHANGED driver_vars

\* The BrFalse arm with the two cases of the If in the order of BrTrue.
ClassifyBrFalse_unswapped ==
    /\ Classifying
    /\ HeadLabel # None
    /\ At(bytecode, i).op = "BrFalse"
    /\ edges' = MapInsert(HeadEdges, HeadLabel,
                          If(Label_new(At(bytecode, i).d),
                             fallthrough_case(bytecode, i)))
    /\ current_label' = None
    /\ i' = i + 1
    /\ UNCHANGED <<bytecode, pc, branch_dests, branch_origins, blocks, result>>
    /\ UNCHANGED emit_vars
    /\ UNCHANGED driver_vars

\* Lines 180-195
ClassifyBrFalse ==
    /\ Classifying
    /\ HeadLabel # None
    /\ At(bytecode, i).op = "BrFalse"
    /\ edges' = MapInsert(HeadEdges, HeadLabel,
                          If(fallthrough_case(bytecode, i),
                             Label_new(At(bytecode, i).d)))
    /\ current_label' = None
    /\ i' = i + 1
    /\ UNCHANGED <<bytecode, pc, branch_dests, branch_origins, blocks, result>>
    /\ UNCHANGED emit_vars
    /\ UNCHANGED driver_vars

\* Lines 196-234, 238-239: Branch(x) with x < i
ClassifyBranchBack ==
    /\ Classifying
    /\ HeadLabel # None
    /\ At(bytecode, i).op = "Branch"
    /\ At(bytecode, i).d < i
    /\ LET dest_label == Label_new(At(bytecode, i).d)
           r == promote_header(HeadEdges, dest_label, HeadLabel)
       IN IF ~r.ok
          THEN /\ result' = "InvalidLoopHeader"
               /\ pc' = "done"
               /\ UNCHANGED <<i, edges, current_label>>
          ELSE /\ edges' = MapInsert(r.edges, HeadLabel, LoopBack(dest_label))
               /\ current_label' = None
               /\ i' = i + 1
               /\ UNCHANGED <<pc, result>>
    /\ UNCHANGED <<bytecode, branch_dests, branch_origins, blocks>>
    /\ UNCHANGED emit_vars
    /\ UNCHANGED driver_vars

\* Lines 196-199, 235-239: Branch(x) with x >= i
ClassifyBranchForward ==
    /\ Classifying
    /\ HeadLabel # None
    /\ At(bytecode, i).op = "Branch"
    /\ ~(At(bytecode, i).d < i)
    /\ edges' = MapInsert(HeadEdges, HeadLabel,
                          Pass(Label_new(At(bytecode, i).d)))
    /\ current_label' = None
    /\ i' = i + 1
    /\ UNCHANGED <<bytecode, pc, branch_dests, branch_origins, blocks, result>>
    /\ UNCHANGED emit_vars
    /\ UNCHANGED driver_vars

\* Lines 241-245
ClassifyTerminator ==
    /\ Classifying
    /\ HeadLabel # None
    /\ At(bytecode, i).op \in {"Abort", "Ret"}
    /\ edges' = MapInsert(HeadEdges, HeadLabel, Pass(Exit))
    /\ current_label' = None
    /\ i' = i + 1
    /\ UNCHANGED <<bytecode, pc, branch_dests, branch_origins, blocks, result>>
    /\ UNCHANGED emit_vars
    /\ UNCHANGED driver_vars

\* Line 246
ClassifyOther ==
    /\ Classifying
    /\ HeadLabel # None
    /\ At(bytecode, i).op = "N"
    /\ edges' = HeadEdges
    /\ current_label' = HeadLabel
    /\ i' = i + 1
    /\ UNCHANGED <<bytecode, pc, branch_dests, branch_origins, blocks, result>>
    /\ UNCHANGED emit_vars
    /\ UNCHANGED driver_vars

\* Lines 249-254
Finish ==
    /\ pc = "classify" /\ i = Len(bytecode)
    /\ edges' = close_last_block(edges, current_label)
    /\ current_label' = None
    /\ result' = "Ok"
    /\ pc' = "done"
    /\ UNCHANGED <<bytecode, i, branch_dests, branch_origins, blocks>>
    /\ UNCHANGED emit_vars
    /\ UNCHANGED driver_vars

(***************************************************************************)
(* Emitter: compile_function and compile_with_cfg (compiler.rs)            *)
(***************************************************************************)
\* The deepest recursion of compile_with_cfg that is followed.
MaxDepth == 12

\* Node::Instruction, Node::IfElse and Node::While of the emitted body.
Instruction(name) == [node |-> "Instruction", ins |-> name]

IfElse(t, f) == [node |-> "IfElse", true_case |-> t, false_case |-> f]

While(b) == [node |-> "While", body |-> b]

Not == Instruction("Not")

\* Lines 158-196: the nodes one bytecode contributes.  N stands for a
\* bytecode translated to one instruction; Ret and the branching bytecodes
\* contribute nothing here (the latter reach the unreachable! arm).
translate(bc) ==
    IF bc.op = "N" THEN <<Instruction("Op")>>
    ELSE IF bc.op = "Abort"
         THEN <<Instruction("Drop"), Instruction("PushU32(1)"),
                Instruction("Assertz")>>
         ELSE <<>>

\* Lines 151-202: compile_body appends the translation of every bytecode
\* of the block to nodes.
RECURSIVE compile_body(_, _)
compile_body(code, nodes) ==
    IF code = <<>> THEN nodes
    ELSE compile_body(Tail(code), nodes \o translate(Head(code)))

\* Cfg::block and Cfg::edge return an error for a label that has no entry.
cfg_block_ok(bs, label) == label \in DOMAIN bs

cfg_edge_ok(es, label) == label \in DOMAIN es

\* The labels a label-ordered breadth-first search from a reaches, a included.
reachable_from(es, a) ==
    LET labels == DOMAIN es \cup UNION {SuccessorSet(es[l]) : l \in DOMAIN es}
    IN {a} \cup {l \in labels : has_path(es, a, l)}

\* The least element of a non-empty set of labels.
first_label(S) == CHOOSE l \in S : \A m \in S : m = l \/ LabelLess(l, m)

\* first_common_ancestor: the first label, in ascending label order, that
\* both sides reach; Exit when they share none.
first_common_ancestor(es, a, b) ==
    LET common == reachable_from(es, a) \cap reachable_from(es, b)
    IN IF common = {} THEN Exit ELSE first_label(common)

\* One activation of compile_with_cfg: its arguments, its nodes vector,
\* the call it is waiting for (at) and the locals of the If arm.
Frame(current, target) ==
    [current_label |-> current, target_label |-> target, nodes |-> <<>>,
     at |-> "call", new_target |-> None, true_case |-> <<>>]

Top == stack[Len(stack)]

Caller == stack[Len(stack) - 1]

SetTop(f) == [stack EXCEPT ![Len(stack)] = f]

\* The stack once the callee is popped and the caller has become f.
ReturnTo(f) == SubSeq(stack, 1, Len(stack) - 2) \o <<f>>

Calling == emit_status = "run" /\ stack # <<>> /\ Top.at = "call"

Returning(waiting) ==
    /\ emit_status = "run"
    /\ Len(stack) >= 2
    /\ Top.at = "ret"
    /\ Caller.at = waiting

\* Lines 108-110, 128-130: how this activation fails before it recurses:
\* "err" for a failed lookup, "panic" for the unreachable! arm of
\* compile_body, "none" when it gets past both.
emit_failure(bs, es, label) ==
    IF ~cfg_block_ok(bs, label) THEN "err"
    ELSE IF compile_body_unreachable(bs[label]) THEN "panic"
    ELSE IF ~cfg_edge_ok(es, label) THEN "err"
    ELSE IF es[label].kind # "LoopBack" THEN "none"
    ELSE IF ~cfg_block_ok(bs, es[label].header) THEN "err"
    ELSE IF compile_body_unreachable(bs[es[label].header]) THEN "panic"
    ELSE IF ~cfg_edge_ok(es, es[label].header) THEN "err"
    ELSE "none"

\* loop_back_nodes without the Not of a WhileFalse header.
loop_back_nodes_no_not(bs, es, label) ==
    compile_body(bs[es[label].header], compile_body(bs[label], <<>>))

\* Lines 127-133: the block, the replayed header block, and a Not when
\* the header is a WhileFalse.
loop_back_nodes(bs, es, label) ==
    LET header == es[label].header
        replayed == compile_body(bs[header], compile_body(bs[label], <<>>))
    IN IF es[header].kind = "WhileFalse" THEN Append(replayed, Not)
       ELSE replayed

\* Line 84: Cfg::new failed, compile_function returns the error.
CfgError ==
    /\ pc = "done" /\ result # "Ok"
    /\ emit_status = "idle"
    /\ emit_status' = "err"
    /\ UNCHANGED <<stack, body>>
    /\ UNCHANGED cfg_vars
    /\ UNCHANGED driver_vars

\* Line 85: compile_with_cfg(&cfg, state, Label::Entry, Label::Exit)
StartEmit ==
    /\ pc = "done" /\ result = "Ok"
    /\ emit_status = "idle"
    /\ stack' = <<Frame(Entry, Exit)>>
    /\ emit_status' = "run"
    /\ UNCHANGED body
    /\ UNCHANGED cfg_vars
    /\ UNCHANGED driver_vars

\* Lines 105-107
EmitAtTarget ==
    /\ Calling
    /\ Top.current_label = Top.target_label
    /\ stack' = SetTop([Top EXCEPT !.at = "ret"])
    /\ UNCHANGED <<emit_status, body>>
    /\ UNCHANGED cfg_vars
    /\ UNCHANGED driver_vars

\* Lines 108-110, 128-130: a failed lookup, or the unreachable! arm of
\* compile_body, ends the compilation.
EmitError ==
    /\ Calling
    /\ Top.current_label # Top.target_label
    /\ emit_failure(blocks, edges, Top.current_label) # "none"
    /\ emit_status' = emit_failure(blocks, edges, Top.current_label)
    /\ stack' = <<>>
    /\ UNCHANGED body
    /\ UNCHANGED cfg_vars
    /\ UNCHANGED driver_vars

\* This activation gets past its lookups and matches on an edge of this kind.
Emitting(edge_kind) ==
    /\ Calling
    /\ Top.current_label # Top.target_label
    /\ emit_failure(blocks, edges, Top.current_label) = "none"
    /\ edges[Top.current_label].kind = edge_kind

\* Lines 108-112
EmitPass ==
    /\ Emitting("Pass")
    /\ Len(stack) < MaxDepth
    /\ LET label == Top.current_label
       IN stack' = Append(
              SetTop([Top EXCEPT !.nodes = compile_body(blocks[label], <<>>),
                                 !.at = "pass"]),
              Frame(edges[label].next, Top.target_label))
    /\ UNCHANGED <<emit_status, body>>
    /\ UNCHANGED cfg_vars
    /\ UNCHANGED driver_vars

\* Lines 113, 148
ReturnPass ==
    /\ Returning("pass")
    /\ stack' = ReturnTo([Caller EXCEPT !.nodes = Caller.nodes \o Top.nodes,
                                        !.at = "ret"])
    /\ UNCHANGED <<emit_status, body>>
    /\ UNCHANGED cfg_vars
    /\ UNCHANGED driver_vars

\* Lines 108-110, 115-120
EmitIf ==
    /\ Emitting("If")
    /\ Len(stack) < MaxDepth
    /\ LET label == Top.current_label
           new_target == first_common_ancestor(edges, edges[label].true_case,
                                               edges[label].false_case)
       IN stack' = Append(
              SetTop([Top EXCEPT !.nodes = compile_body(blocks[label], <<>>),
                                 !.at = "true_case",
                                 !.new_target = new_target]),
              Frame(edges[label].true_case, new_target))
    /\ UNCHANGED <<emit_status, body>>
    /\ UNCHANGED cfg_vars
    /\ UNCHANGED driver_vars

\* Lines 120-121
ReturnIfTrue ==
    /\ Returning("true_case")
    /\ stack' = ReturnTo([Caller EXCEPT !.true_case = Top.nodes,
                                        !.at = "false_case"])
                \o <<Frame(edges[Caller.current_label].false_case,
                           Caller.new_target)>>
    /\ UNCHANGED <<emit_status, body>>
    /\ UNCHANGED cfg_vars
    /\ UNCHANGED driver_vars

\* Lines 121-126, 148: the IfElse node is the last node of this activation.
ReturnIfFalse ==
    /\ Returning("false_case")
    /\ stack' = ReturnTo(
           [Caller EXCEPT !.nodes = Append(Caller.nodes,
                                           IfElse(Caller.true_case, Top.nodes)),
                          !.at = "ret"])
    /\ UNCHANGED <<emit_status, body>>
    /\ UNCHANGED cfg_vars
    /\ UNCHANGED driver_vars

\* Lines 108-110, 127-133, 148
EmitLoopBack ==
    /\ Emitting("LoopBack")
    /\ stack' = SetTop([Top EXCEPT
                            !.nodes = loop_back_nodes(blocks, edges,
                                                      Top.current_label),
                            !.at = "ret"])
    /\ UNCHANGED <<emit_status, body>>
    /\ UNCHANGED cfg_vars
    /\ UNCHANGED driver_vars

\* EmitWhileTrue with the body compiled up to the header instead of up to
\* target_label.
EmitWhileTrue_up_to_header ==
    /\ Emitting("WhileTrue")
    /\ Len(stack) < MaxDepth
    /\ LET label == Top.current_label
       IN stack' = Append(
              SetTop([Top EXCEPT !.nodes = compile_body(blocks[label], <<>>),
                                 !.at = "body"]),
              Frame(edges[label].body_start, label))
    /\ UNCHANGED <<emit_status, body>>
    /\ UNCHANGED cfg_vars
    /\ UNCHANGED driver_vars

\* Lines 108-110, 134-135
EmitWhileTrue ==
    /\ Emitting("WhileTrue")
    /\ Len(stack) < MaxDepth
    /\ LET label == Top.current_label
       IN stack' = Append(
              SetTop([Top EXCEPT !.nodes = compile_body(blocks[label], <<>>),
                                 !.at = "body"]),
              Frame(edges[label].body_start, Top.target_label))
    /\ UNCHANGED <<emit_status, body>>
    /\ UNCHANGED cfg_vars
    /\ UNCHANGED driver_vars

\* Lines 108-110, 140-142
EmitWhileFalse ==
    /\ Emitting("WhileFalse")
    /\ Len(stack) < MaxDepth
    /\ LET label == Top.current_label
       IN stack' = Append(
              SetTop([Top EXCEPT
                          !.nodes = Append(compile_body(blocks[label], <<>>),
                                           Not),
                          !.at = "body"]),
              Frame(edges[label].body_start, Top.target_label))
    /\ UNCHANGED <<emit_status, body>>
    /\ UNCHANGED cfg_vars
    /\ UNCHANGED driver_vars

\* Lines 135-137, 142-144
ReturnWhileBody ==
    /\ Returning("body")
    /\ stack' = ReturnTo([Caller EXCEPT
                              !.nodes = Append(Caller.nodes, While(Top.nodes)),
                              !.at = "after"])
                \o <<Frame(edges[Caller.current_label].after,
                           Caller.target_label)>>
    /\ UNCHANGED <<emit_status, body>>
    /\ UNCHANGED cfg_vars
    /\ UNCHANGED driver_vars

\* Lines 137-138, 144-145, 148
ReturnWhileAfter ==
    /\ Returning("after")
    /\ stack' = ReturnTo([Caller EXCEPT !.nodes = Caller.nodes \o Top.nodes,
                                        !.at = "ret"])
    /\ UNCHANGED <<emit_status, body>>
    /\ UNCHANGED cfg_vars
    /\ UNCHANGED driver_vars

\* Lines 85-94: the outermost activation returns the body of the procedure.
ReturnTop ==
    /\ emit_status = "run"
    /\ Len(stack) = 1
    /\ Top.at = "ret"
    /\ body' = Top.nodes
    /\ emit_status' = "ok"
    /\ stack' = <<>>
    /\ UNCHANGED cfg_vars
    /\ UNCHANGED driver_vars

Next ==
    \/ ValidateConditional
    \/ ValidateBranch
    \/ ValidateOther
    \/ CollectBlocks
    \/ ClassifySkip
    \/ ClassifyBrTrue
    \/ ClassifyBrFalse
    \/ ClassifyBranchBack
    \/ ClassifyBranchForward
    \/ ClassifyTerminator
    \/ ClassifyOther
    \/ Finish
    \/ CfgError
    \/ StartEmit
    \/ EmitAtTarget
    \/ EmitError
    \/ EmitPass
    \/ ReturnPass
    \/ EmitIf
    \/ ReturnIfTrue
    \/ ReturnIfFalse
    \/ EmitLoopBack
    \/ EmitWhileTrue
    \/ EmitWhileFalse
    \/ ReturnWhileBody
    \/ ReturnWhileAfter
    \/ ReturnTop

Spec == Init /\ [][Next]_vars

(***************************************************************************)
(* Module driver: compile (compiler.rs, lines 17-54)                       *)
(***************************************************************************)
\* Lines 18-19, 37: the loop over function_defs starts with no main
\* procedure and no local procedures.  Cfg::new and the emitter are run
\* inside compile_function and stand still here.
InitCompile ==
    /\ function_defs \in Modules
    /\ next_function = 1
    /\ main_proc = NoProc
    /\ local_procs = <<>>
    /\ compiled = "Pending"
    /\ bytecode = <<>>
    /\ pc = "idle"
    /\ i = 0
    /\ branch_dests = {}
    /\ branch_origins = {}
    /\ blocks = EmptyMap
    /\ edges = EmptyMap
    /\ current_label = None
    /\ result = "Pending"
    /\ stack = <<>>
    /\ emit_status = "idle"
    /\ body = <<>>

\* The loop of line 37 is at a function definition.
InLoop == compiled = "Pending" /\ next_function <= Len(function_defs)

\* Line 38: compile_function fails and compile returns its error.
CompileFunctionError ==
    /\ InLoop
    /\ function_defs[next_function].code = "err"
    /\ compiled' = "CompileFunctionError"
    /\ UNCHANGED <<function_defs, next_function, main_proc, local_procs>>
    /\ UNCHANGED <<cfg_vars, emit_vars>>

\* CompileEntry without the placeholder in the entry's slot.
CompileEntry_no_placeholder ==
    /\ InLoop
    /\ function_defs[next_function].code # "err"
    /\ function_defs[next_function].is_entry
    /\ ~main_proc.some
    /\ main_proc' = Some([compile_function(function_defs[next_function],
                                           next_function)
                             EXCEPT !.name = MainName])
    /\ next_function' = next_function + 1
    /\ UNCHANGED <<function_defs, compiled, local_procs>>
    /\ UNCHANGED <<cfg_vars, emit_vars>>

\* Lines 38-46: the first entry function becomes main, and a placeholder
\* takes its slot among the local procedures.
CompileEntry ==
    /\ InLoop
    /\ function_defs[next_function].code # "err"
    /\ function_defs[next_function].is_entry
    /\ ~main_proc.some
    /\ main_proc' = Some([compile_function(function_defs[next_function],
                                           next_function)
                             EXCEPT !.name = MainName])
    /\ local_procs' = Append(local_procs, empty_proc(MAIN_NAME_REPLACEMENT))
    /\ next_function' = next_function + 1
    /\ UNCHANGED <<function_defs, compiled>>
    /\ UNCHANGED <<cfg_vars, emit_vars>>

\* Lines 38-42: a second entry function
MultipleEntrypoints ==
    /\ InLoop
    /\ function_defs[next_function].code # "err"
    /\ function_defs[next_function].is_entry
    /\ main_proc.some
    /\ compiled' = "Cannot handle multiple entrypoints"
    /\ UNCHANGED <<function_defs, next_function, main_proc, local_procs>>
    /\ UNCHANGED <<cfg_vars, emit_vars>>

\* Lines 38, 47-49
CompileLocal ==
    /\ InLoop
    /\ function_defs[next_function].code # "err"
    /\ ~function_defs[next_function].is_entry
    /\ local_procs' = Append(local_procs,
                             compile_function(function_defs[next_function],
                                              next_function))
    /\ next_function' = next_function + 1
    /\ UNCHANGED <<function_defs, compiled, main_proc>>
    /\ UNCHANGED <<cfg_vars, emit_vars>>

\* Line 51
NoEntryPoint ==
    /\ compiled = "Pending"
    /\ next_function > Len(function_defs)
    /\ ~main_proc.some
    /\ compiled' = "No entry point defined"
    /\ UNCHANGED <<function_defs, next_function, main_proc, local_procs>>
    /\ UNCHANGED <<cfg_vars, emit_vars>>

\* Lines 52-53: ProgramAst::new, of the assembler's crate, takes the body
\* of main and the local procedures; it returns the program or an error.
Assemble ==
    /\ compiled = "Pending"
    /\ next_function > Len(function_defs)
    /\ main_proc.some
    /\ compiled' \in {"Ok", "ProgramAstError"}
    /\ UNCHANGED <<function_defs, next_function, main_proc, local_procs>>
    /\ UNCHANGED <<cfg_vars, emit_vars>>

NextCompile ==
    \/ CompileFunctionError
    \/ CompileEntry
    \/ MultipleEntrypoints
    \/ CompileLocal
    \/ NoEntryPoint
    \/ Assemble

SpecCompile == InitCompile /\ [][NextCompile]_vars

(***************************************************************************)
(* Properties                                                              *)
(***************************************************************************)
Returned == pc = "done" /\ result = "Ok"

EdgeKinds == {edges[l].kind : l \in DOMAIN edges}

\* Reachability in an edge map, as the least fixed point of the successor
\* relation (independent of the BFS of has_path).
RECURSIVE ReachSet(_, _)
ReachSet(es, S) ==
    LET S1 == S \cup UNION {SuccessorSet(es[l]) : l \in S \cap DOMAIN es}
    IN IF S1 = S THEN S ELSE ReachSet(es, S1)

Reaches(es, a, b) == b \in ReachSet(es, {a})

\* C1: when Cfg::new returns Ok, every label in a successor position of an
\* edge is a key of blocks (no dangling edges).
C1_NoDanglingEdges ==
    Returned =>
        \A l \in DOMAIN edges : SuccessorSet(edges[l]) \subseteq DOMAIN blocks

\* A returned CFG holding a conditional whose fall-through side was taken
\* from a following Branch, a promoted loop and its back edge.
C1_Witness ==
    /\ Returned
    /\ {"If", "Pass", "LoopBack"} \subseteq EdgeKinds
    /\ EdgeKinds \cap WhileKinds # {}
    /\ \E k \in 1..(Len(bytecode) - 1) :
           /\ bytecode[k].op \in ConditionalOps
           /\ bytecode[k + 1].op = "Branch"

\* C2: when Cfg::new returns Ok, the keys of edges are the keys of blocks
\* without Exit: one outgoing edge per non-Exit block, none for Exit.
C2_OneEdgePerBlock ==
    Returned => DOMAIN edges = (DOMAIN blocks) \ {Exit}

\* A returned CFG of at least four blocks whose last block was still open
\* at the end of the scan.
C2_Witness ==
    /\ Returned
    /\ Cardinality(DOMAIN blocks) >= 4
    /\ Len(bytecode) > 0
    /\ bytecode[Len(bytecode)].op = "N"

\* C3: when Cfg::new returns Ok, for bytecode of any length (zero
\* included), Entry and Exit are keys of blocks.
C3_EntryExitPresent ==
    Returned => Entry \in DOMAIN blocks /\ Exit \in DOMAIN blocks

\* The edges of the blocks up to and including L, without the edge of H:
\* the map has_path was given when the back-jump closing L was scanned.
EdgesWhenScanned(L, H) ==
    [l \in {x \in DOMAIN edges : (x = L \/ LabelLess(x, L)) /\ x # H} |->
        edges[l]]

Headers == {l \in DOMAIN edges : edges[l].kind \in WhileKinds}

Latches(H) == {l \in DOMAIN edges : edges[l] = LoopBack(H)}

\* C4 as stated: in every returned CFG, for every WhileTrue/WhileFalse
\* header H with body_start B and after A, has_path(edges, B, H) is true
\* and has_path(edges, A, H) is false, nested loops included.
C4_BodyReachesAfterDoesNot ==
    Returned =>
        \A H \in Headers :
            /\ has_path(edges, edges[H].body_start, H)
            /\ ~has_path(edges, edges[H].after, H)

\* C4 amended: in every returned CFG, for every header H, body_start
\* reaches H in the final edges; and `after` does not reach the latch L
\* (the block whose edge is LoopBack{H}) through the edges of the blocks up
\* to L with the edge of H removed.
C4_BodyReachesHeader ==
    Returned =>
        \A H \in Headers :
            /\ Reaches(edges, edges[H].body_start, H)
            /\ \A L \in Latches(H) :
                   ~Reaches(EdgesWhenScanned(L, H), edges[H].after, L)

\* A returned CFG with a loop nested in another loop, where the inner
\* loop's `after` reaches the inner header in the final edges.
C4_Witness ==
    /\ Returned
    /\ \E H1, H2 \in Headers :
           /\ H1 # H2
           /\ Latches(H1) # {} /\ Latches(H2) # {}
           /\ Reaches(edges, edges[H2].after, H2)

\* The validation rules of a branching instruction at index k.
BranchValid(bc, k) ==
    LET b == At(bc, k)
    IN /\ b.d # k
       /\ b.d < Len(bc)
       /\ At(bc, b.d).op \notin BranchingOps
       /\ b.op \in ConditionalOps =>
              /\ b.d >= k
              /\ ~(k + 1 < Len(bc) /\ At(bc, k + 1).op \in ConditionalOps)

Violations(bc) ==
    {k \in 0..(Len(bc) - 1) :
        At(bc, k).op \in BranchingOps /\ ~BranchValid(bc, k)}

FirstViolation(bc) ==
    CHOOSE k \in Violations(bc) : \A j \in Violations(bc) : k <= j

ValidationErrors ==
    {"BranchToBranch", "ConditionalJumpBack", "BranchOutOfBounds",
     "SelfBranch", "RepeatConditionalBranch"}

\* C5: Cfg::new gets past the first loop, and returns Ok, only if every
\* branching instruction satisfies all validation rules; if any branch
\* violates a rule, Cfg::new returns a validation error and no CFG.
C5_OkOnlyIfAllValid ==
    /\ (pc = "classify" \/ result = "Ok") => Violations(bytecode) = {}
    /\ (pc = "done" /\ Violations(bytecode) # {}) =>
           result \in ValidationErrors

\* Cfg::new has failed on a repeated conditional after accepting an
\* earlier branch.
C5_Witness ==
    /\ pc = "done"
    /\ result = "RepeatConditionalBranch"
    /\ branch_origins # {}

\* C6 as stated: when the first violating branch is a conditional at i
\* with destination d <= i, Cfg::new fails with ConditionalJumpBack.
C6_ConditionalJumpBackOrSelf ==
    (pc = "done" /\ Violations(bytecode) # {}) =>
        LET k == FirstViolation(bytecode)
        IN (At(bytecode, k).op \in ConditionalOps /\ At(bytecode, k).d <= k)
               => result = "ConditionalJumpBack"

\* C6 amended: when the first violating branch is a conditional at i with
\* destination d < i, Cfg::new fails with ConditionalJumpBack; with d = i
\* it fails with RepeatConditionalBranch if the instruction at i + 1 is a
\* conditional and with SelfBranch otherwise.
C6_ConditionalJumpBack ==
    (pc = "done" /\ Violations(bytecode) # {}) =>
        LET k == FirstViolation(bytecode)
            b == At(bytecode, k)
        IN b.op \in ConditionalOps =>
              /\ b.d < k => result = "ConditionalJumpBack"
              /\ b.d = k =>
                     result = IF /\ k + 1 < Len(bytecode)
                                 /\ At(bytecode, k + 1).op \in ConditionalOps
                              THEN "RepeatConditionalBranch"
                              ELSE "SelfBranch"

\* Cfg::new has failed with ConditionalJumpBack on a conditional that
\* jumps back and is followed by another conditional.
C6_Witness ==
    /\ pc = "done"
    /\ result = "ConditionalJumpBack"
    /\ At(bytecode, i).op \in ConditionalOps
    /\ At(bytecode, i).d < i
    /\ i + 1 < Len(bytecode)
    /\ At(bytecode, i + 1).op \in ConditionalOps

\* C7 as stated: when the destination of the first violating branch holds
\* a branching instruction, Cfg::new fails with BranchToBranch.
C7_BranchToBranchAlways ==
    (pc = "done" /\ Violations(bytecode) # {}) =>
        LET b == At(bytecode, FirstViolation(bytecode))
        IN (b.d < Len(bytecode) /\ At(bytecode, b.d).op \in BranchingOps)
               => result = "BranchToBranch"

\* C7 amended: when the destination d of the first violating branch, at
\* index i, holds a branching instruction, d # i, and, for a conditional,
\* d > i and the instruction at i + 1 is not a conditional, Cfg::new fails
\* with BranchToBranch.
C7_BranchToBranch ==
    (pc = "done" /\ Violations(bytecode) # {}) =>
        LET k == FirstViolation(bytecode)
            b == At(bytecode, k)
        IN (/\ b.d < Len(bytecode)
            /\ At(bytecode, b.d).op \in BranchingOps
            /\ b.d # k
            /\ b.op \in ConditionalOps =>
                   /\ b.d > k
                   /\ ~(k + 1 < Len(bytecode)
                        /\ At(bytecode, k + 1).op \in ConditionalOps))
               => result = "BranchToBranch"

\* Cfg::new has failed with BranchToBranch on a branch whose destination
\* holds a conditional.
C7_Witness ==
    /\ pc = "done"
    /\ result = "BranchToBranch"
    /\ At(bytecode, At(bytecode, i).d).op \in ConditionalOps

\* The second loop is at a Ret, an Abort or a branching instruction with
\* no open block, other than a Branch that directly follows a conditional
\* (which that conditional's edge has consumed).
TerminatorWithoutBlock ==
    /\ Classifying
    /\ HeadLabel = None
    /\ At(bytecode, i).op \in {"Ret", "Abort"} \cup BranchingOps
    /\ ~(/\ At(bytecode, i).op = "Branch"
         /\ i > 0
         /\ At(bytecode, i - 1).op \in ConditionalOps)

\* C8: a terminator reached in the second loop while `current` is cleared
\* makes Cfg::new fail with UnexpectedBlockEnd instead of being skipped.
C8_UnexpectedBlockEnd ==
    [][TerminatorWithoutBlock =>
           (pc' = "done" /\ result' = "UnexpectedBlockEnd")]_vars

\* The second loop is at a back-jump Branch(d), d < i, with an open block.
BackJump ==
    /\ Classifying
    /\ current_label # None
    /\ At(bytecode, i).op = "Branch"
    /\ At(bytecode, i).d < i

\* The header's recorded edge is not an If, or its two successors both
\* reach, or both fail to reach, the open block through the edges recorded
\* so far (the header's own edge taken out, as the code does).
BackJumpInvalid ==
    LET H == Label_new(At(bytecode, i).d)
    IN \/ H \notin DOMAIN edges
       \/ edges[H].kind # "If"
       \/ LET E0 == [l \in (DOMAIN edges) \ {H} |-> edges[l]]
          IN Reaches(E0, edges[H].true_case, current_label)
                 = Reaches(E0, edges[H].false_case, current_label)

\* C9: a back-jump scanned with an open block fails with InvalidLoopHeader
\* exactly when the header's edge is not an If or the two successors of
\* the If both reach or both fail to reach the open block; otherwise the
\* scan continues with the next instruction.
C9_InvalidLoopHeaderExactly ==
    [][BackJump =>
           IF BackJumpInvalid
           THEN pc' = "done" /\ result' = "InvalidLoopHeader"
           ELSE pc' = "classify" /\ result' = "Pending" /\ i' = i + 1]_vars

\* Cfg::new has failed with InvalidLoopHeader on a second back-jump to a
\* header that an earlier back-jump had already promoted.
C9_Witness ==
    /\ pc = "done"
    /\ result = "InvalidLoopHeader"
    /\ Label_new(At(bytecode, i).d) \in DOMAIN edges
    /\ edges[Label_new(At(bytecode, i).d)].kind \in WhileKinds

\* C10: no block of a returned CFG holds a BrTrue, BrFalse or Branch, so
\* compile_body never reaches its unreachable! arm on a block, a header
\* block replayed on LoopBack included.
C10_NoBranchInBlocks ==
    Returned =>
        \A l \in DOMAIN blocks : ~compile_body_unreachable(blocks[l])

\* A returned CFG with a loop (whose header block is replayed at the
\* LoopBack) and a block that ends right before a branch and is longer
\* than one instruction.
C10_Witness ==
    /\ Returned
    /\ \E l \in DOMAIN edges : edges[l].kind = "LoopBack"
    /\ \E l \in DOMAIN blocks :
           /\ Len(blocks[l]) >= 2
           /\ (l.idx + Len(blocks[l])) \in branch_origins

\* C14: a back-jump Branch(d) scanned in open block L whose header
\* H = label_of(d) has the edge If{T, F}: when T reaches L and F does not
\* (edges so far, H's edge removed) H's edge becomes WhileTrue{T, F}; when
\* F reaches L and T does not it becomes WhileFalse{F, T}; L's edge
\* becomes LoopBack{H}, `current` is cleared, no other edge changes.
C14_Promotion ==
    [][(BackJump /\ ~BackJumpInvalid) =>
           LET H == Label_new(At(bytecode, i).d)
               L == current_label
               T == edges[H].true_case
               F == edges[H].false_case
               E0 == [l \in (DOMAIN edges) \ {H} |-> edges[l]]
               promoted == IF Reaches(E0, T, L) /\ ~Reaches(E0, F, L)
                           THEN WhileTrue(T, F)
                           ELSE WhileFalse(F, T)
           IN /\ edges' = [l \in (DOMAIN edges) \cup {L} |->
                              IF l = H THEN promoted
                              ELSE IF l = L THEN LoopBack(H)
                              ELSE edges[l]]
              /\ current_label' = None]_vars

\* The second loop has just promoted a header to WhileFalse, with other
\* edges already recorded.
C14_Witness ==
    /\ pc = "classify"
    /\ i > 0
    /\ At(bytecode, i - 1).op = "Branch"
    /\ At(bytecode, i - 1).d < i - 1
    /\ current_label = None
    /\ Label_new(At(bytecode, i - 1).d) \in DOMAIN edges
    /\ edges[Label_new(At(bytecode, i - 1).d)].kind = "WhileFalse"
    /\ \E l \in DOMAIN edges :
           edges[l] = LoopBack(Label_new(At(bytecode, i - 1).d))
    /\ Cardinality(DOMAIN edges) >= 4

\* The second loop is at a conditional with an open block.
ConditionalStep ==
    /\ Classifying
    /\ current_label # None
    /\ At(bytecode, i).op \in ConditionalOps

\* The second loop is at a Branch that directly follows a conditional.
BranchAfterConditional ==
    /\ Classifying
    /\ i > 0
    /\ At(bytecode, i - 1).op \in ConditionalOps
    /\ At(bytecode, i).op = "Branch"

\* C15: a conditional at i in open block L records on L the edge
\* If{label_of(d), F} for BrTrue(d) and If{F, label_of(d)} for BrFalse(d),
\* F being label_of(next_dst) when i + 1 holds Branch(next_dst) and
\* label_of(i + 1) otherwise, and clears `current`; a Branch at i + 1
\* starts no block and records no edge.
C15_ConditionalEdge ==
    [][/\ ConditionalStep =>
              LET b == At(bytecode, i)
                  F == IF /\ i + 1 < Len(bytecode)
                          /\ At(bytecode, i + 1).op = "Branch"
                       THEN Label_new(At(bytecode, i + 1).d)
                       ELSE Label_new(i + 1)
                  recorded == IF b.op = "BrTrue"
                              THEN If(Label_new(b.d), F)
                              ELSE If(F, Label_new(b.d))
              IN /\ edges' = [l \in (DOMAIN edges) \cup {current_label} |->
                                 IF l = current_label THEN recorded
                                 ELSE edges[l]]
                 /\ current_label' = None
       /\ BranchAfterConditional =>
              /\ Label_new(i) \notin DOMAIN blocks
              /\ edges' = edges
              /\ current_label' = None]_vars

\* The second loop has passed a BrFalse and the Branch that follows it:
\* the If recorded for the BrFalse takes its true case from the Branch.
C15_Witness ==
    /\ pc = "classify"
    /\ i >= 2
    /\ At(bytecode, i - 2).op = "BrFalse"
    /\ At(bytecode, i - 1).op = "Branch"
    /\ At(bytecode, i - 1).d # At(bytecode, i - 2).d
    /\ current_label = None
    /\ \E l \in DOMAIN edges :
           edges[l] = If(Label_new(At(bytecode, i - 1).d),
                         Label_new(At(bytecode, i - 2).d))

\* Every LoopBack names a promoted header that is smaller than the latch,
\* and every promoted header has exactly one latch.
LatchPairing ==
    /\ \A l \in DOMAIN edges :
           edges[l].kind = "LoopBack" =>
               /\ edges[l].header \in DOMAIN edges
               /\ edges[edges[l].header].kind \in WhileKinds
               /\ LabelLess(edges[l].header, l)
    /\ \A H \in Headers : Cardinality(Latches(H)) = 1

\* C18: in every returned CFG each LoopBack{H} names a block H whose edge
\* is WhileTrue or WhileFalse, each such header is the target of exactly
\* one LoopBack, H is smaller than the latch in the label order; and no
\* step changes the edge of a header once it is promoted.
C18_SingleLatch ==
    [][/\ Returned' => LatchPairing'
       /\ \A H \in Headers : H \in DOMAIN edges' /\ edges'[H] = edges[H]]_vars

\* A returned CFG with two promoted headers, each with its latch.
C18_Witness ==
    /\ Returned
    /\ Cardinality(Headers) >= 2
    /\ \A H \in Headers : Latches(H) # {}


(***************************************************************************)
(* Claims about the emitter                                                *)
(***************************************************************************)
\* The activation that called the one on top, once the callee has returned
\* into it, and the activation on top after the step.
CallerAfter == stack'[Len(stack') - 1]

TopAfter == stack'[Len(stack')]

\* C11: at an If block the emitter outputs the block's translated opcodes,
\* then one IfElse node whose arms are compiled from true_case and from
\* false_case up to the join, and then compiles the join up to the stop
\* label, so the code from the join to the stop label follows the IfElse
\* (a join equal to the stop label has no code to follow).
C11_JoinEmittedAfterIfElse ==
    [][/\ Emitting("If") /\ Len(stack) < MaxDepth =>
            LET e == edges[Top.current_label]
                join == first_common_ancestor(edges, e.true_case, e.false_case)
            IN /\ TopAfter = Frame(e.true_case, join)
               /\ CallerAfter.nodes
                     = compile_body(blocks[Top.current_label], <<>>)
       /\ Returning("true_case") =>
            TopAfter = Frame(edges[Caller.current_label].false_case,
                             Caller.new_target)
       /\ Returning("false_case") =>
            \/ /\ Caller.new_target = Caller.target_label
               /\ TopAfter.nodes
                     = Append(Caller.nodes, IfElse(Caller.true_case, Top.nodes))
            \/ /\ Caller.new_target # Caller.target_label
               /\ TopAfter = Frame(Caller.new_target, Caller.target_label)
               /\ CallerAfter.nodes
                     = Append(Caller.nodes, IfElse(Caller.true_case, Top.nodes))
      ]_vars

\* The procedure body compile_function returns for if_else_then_code: the
\* instruction of bytecode 5, at the join of the two arms, is not in it.
C11_JoinDropped ==
    /\ bytecode = if_else_then_code
    /\ emit_status = "ok"
    /\ body = <<Instruction("Op"),
                IfElse(<<Instruction("Op")>>, <<Instruction("Op")>>)>>


\* C12: compile_with_cfg(cfg, Entry, Exit) on a returned CFG never starts
\* an activation for a (current, stop) pair that is still being evaluated.
C12_NoReentry ==
    \A a, b \in 1..Len(stack) :
        a < b =>
            \/ stack[a].current_label # stack[b].current_label
            \/ stack[a].target_label # stack[b].target_label

\* A header whose edge is one of the two loop kinds is being matched on.
EmittingWhile ==
    /\ (Emitting("WhileTrue") \/ Emitting("WhileFalse"))
    /\ Len(stack) < MaxDepth

\* C16: at a WhileFalse header the nodes are the header block's opcodes,
\* then Not, then the While node; at a WhileTrue header the While node
\* follows the opcodes directly; at a LoopBack block the nodes are the
\* block's opcodes, the opcodes of the header block, and one Not exactly
\* when the header's edge is WhileFalse, and no activation is started.
C16_NotPlacement ==
    [][/\ EmittingWhile =>
            LET opcodes == compile_body(blocks[Top.current_label], <<>>)
            IN CallerAfter.nodes
                 = IF edges[Top.current_label].kind = "WhileFalse"
                   THEN opcodes \o <<Not>> ELSE opcodes
       /\ Returning("body") =>
            CallerAfter.nodes = Caller.nodes \o <<While(Top.nodes)>>
       /\ Emitting("LoopBack") =>
            LET header == edges[Top.current_label].header
                opcodes == compile_body(blocks[Top.current_label], <<>>)
                           \o compile_body(blocks[header], <<>>)
            IN /\ Len(stack') = Len(stack)
               /\ TopAfter.at = "ret"
               /\ TopAfter.nodes
                    = IF edges[header].kind = "WhileFalse"
                      THEN opcodes \o <<Not>> ELSE opcodes
      ]_vars

\* The body of a WhileFalse loop has just been compiled at its LoopBack
\* block: the header's activation holds its opcodes and the Not, the
\* LoopBack's activation ends with the replayed opcodes and the Not.
C16_Witness ==
    /\ emit_status = "run"
    /\ Len(stack) >= 2
    /\ Top.at = "ret"
    /\ Top.current_label \in DOMAIN edges
    /\ edges[Top.current_label].kind = "LoopBack"
    /\ Len(Top.nodes) >= 3
    /\ Top.nodes[Len(Top.nodes)] = Not
    /\ \E k \in 1..(Len(stack) - 1) :
          /\ stack[k].current_label = edges[Top.current_label].header
          /\ edges[stack[k].current_label].kind = "WhileFalse"
          /\ stack[k].at = "body"
          /\ Len(stack[k].nodes) >= 2
          /\ stack[k].nodes[Len(stack[k].nodes)] = Not

\* C17 as stated: the body of the While node is compiled from body_start
\* up to the header itself, and the code after the loop from after up to
\* the stop label.
C17_BodyBoundedByHeader ==
    [][/\ EmittingWhile =>
            TopAfter = Frame(edges[Top.current_label].body_start,
                             Top.current_label)
       /\ Returning("body") =>
            /\ CallerAfter.nodes = Append(Caller.nodes, While(Top.nodes))
            /\ TopAfter = Frame(edges[Caller.current_label].after,
                                Caller.target_label)
       /\ Returning("after") => TopAfter.nodes = Caller.nodes \o Top.nodes
      ]_vars

\* C17 amended: the body of the While node is compiled from body_start up
\* to the stop label of the header's own activation, not up to the header;
\* the code after the loop is compiled from after up to the same stop label
\* and appended after the While node.
C17_BodyBoundedByStop ==
    [][/\ EmittingWhile =>
            /\ TopAfter = Frame(edges[Top.current_label].body_start,
                                Top.target_label)
            /\ Top.target_label # Top.current_label
       /\ Returning("body") =>
            /\ CallerAfter.nodes = Append(Caller.nodes, While(Top.nodes))
            /\ TopAfter = Frame(edges[Caller.current_label].after,
                                Caller.target_label)
       /\ Returning("after") => TopAfter.nodes = Caller.nodes \o Top.nodes
      ]_vars

\* The body of a loop is being compiled inside an activation whose stop
\* label is neither Exit nor the header.
C17_Witness ==
    /\ emit_status = "run"
    /\ \E k \in 1..(Len(stack) - 1) :
          /\ stack[k].at = "body"
          /\ edges[stack[k].current_label].kind \in WhileKinds
          /\ stack[k].target_label \notin {Exit, stack[k].current_label}
          /\ stack[k + 1].current_label
                = edges[stack[k].current_label].body_start
          /\ stack[k + 1].target_label = stack[k].target_label


(***************************************************************************)
(* Claims about the module driver                                          *)
(***************************************************************************)
\* The positions of the entry functions of the module.
Entries == {k \in 1..Len(function_defs) : function_defs[k].is_entry}

AllCompile == \A k \in 1..Len(function_defs) : function_defs[k].code # "err"

\* compile has returned, or has reached the call of ProgramAst::new.
Assembled == compiled \in {"Ok", "ProgramAstError"}

\* C13: compile fails when no function is an entry and when more than one
\* is; with exactly one entry and every function compiled, the local
\* procedures handed to the assembler have one slot per function
\* definition, in definition order: the procedure of function k at position
\* k for a non-entry function, an empty placeholder at the entry's
\* position, and main holds the entry's body.
C13_Driver ==
    /\ Assembled => Cardinality(Entries) = 1 /\ AllCompile
    /\ (compiled # "Pending" /\ Cardinality(Entries) = 1 /\ AllCompile) =>
         /\ Assembled
         /\ Len(local_procs) = Len(function_defs)
         /\ \A k \in 1..Len(function_defs) :
               IF k \in Entries
               THEN /\ local_procs[k].body = <<>>
                    /\ local_procs[k].name = MAIN_NAME_REPLACEMENT
                    /\ main_proc.some
                    /\ main_proc.proc.name = MainName
                    /\ main_proc.proc.body
                         = compile_function(function_defs[k], k).body
               ELSE local_procs[k] = compile_function(function_defs[k], k)

\* A module of three functions whose second is the one entry has been
\* compiled.
C13_Witness ==
    /\ compiled = "Ok"
    /\ Len(function_defs) = MaxFunctions
    /\ Entries = {2}
    /\ function_defs[2].code = "ok"
    /\ function_defs[3].code = "ok"

====
